---- MODULE Spec2Model ----
(***************************************************************************)
(* The STP bridge of src/utils/stp_bridge.py: forward_signal with its      *)
(* retry loop, batch_forward_signals and health_check, run by one or by    *)
(* several callers against the process-wide bridge instance.               *)
(*                                                                         *)
(* The downstream endpoint is the environment: every POST is answered by   *)
(* an outcome drawn from Outcomes (a response with a status code and a     *)
(* body, or a network-level exception).  uuid.uuid4() is a fresh value per *)
(* call (a counter), datetime.utcnow() reads a clock that may advance      *)
(* between any two steps.                                                  *)
(***************************************************************************)
EXTENDS Integers, Sequences, FiniteSets, TLC

----------------------------------------------------------------------------
(* Bounds of the model *)

\* largest retry_attempts a bridge is configured with
MaxRetry == 3
\* longest list handed to batch_forward_signals
MaxBatch == 2
\* last reading of the clock
MaxClock == 1
\* callers that share the bridge in ConcSpec
NumCallers == 2
\* largest retry_attempts in BatchSpec
BatchRetry == 2
\* largest retry_attempts in ConcSpec
ConcRetry == 2
\* longest list handed to the batch normalization route
MaxStates == 2
\* identifiers the normalization routes may draw in one run of NormSpec
MaxIds == 4

----------------------------------------------------------------------------
(* Values *)

Callers == 1..NumCallers

\* the one caller of the sequential specification
SeqCallers == {1}

Endpoint == "http://localhost:8001/api/v1/insightflow/receive"

DefaultTimeout == 10

SourceTag == "karmachain_feedback_engine"

\* str(uuid.uuid4()): the n-th identifier the generator hands out
Uuid(n) == <<"uuid", n>>

\* signals are opaque mappings that may or may not hold a signal_id
Signals ==
    { [signal_id |-> <<"sig", 1>>, karma |-> 5],
      [signal_id |-> <<"sig", 2>>, karma |-> 7],
      [karma |-> 5] }

StatusCodes == {200, 201, 500}

\* response.content: nothing, a JSON document, something that is not JSON
Bodies == {"", "{\"ack\": true}", "<html>"}

Responses == [kind : {"response"}, status_code : StatusCodes, content : Bodies]

NetErrors == [kind : {"exception"}, type : {"ConnectionError", "Timeout"}]

Outcomes == Responses \cup NetErrors

\* the outcomes BatchSpec and ConcSpec draw from
FewOutcomes ==
    { [kind |-> "response", status_code |-> 201, content |-> "{\"ack\": true}"],
      [kind |-> "response", status_code |-> 500, content |-> ""],
      [kind |-> "exception", type |-> "Timeout"] }

\* the signals BatchSpec and ConcSpec draw from
FewSignals ==
    { [signal_id |-> <<"sig", 1>>, karma |-> 5],
      [karma |-> 5] }

EmptyMapping == [x \in {} |-> x]

NoRecord == [none |-> TRUE]

----------------------------------------------------------------------------
(* The pure parts of the bridge *)

\* STPBridge.__init__: the configuration read from config, with its defaults
BridgeConfig(retries, on) ==
    [ insightflow_endpoint |-> Endpoint,
      retry_attempts       |-> retries,
      timeout              |-> DefaultTimeout,
      enabled              |-> on ]

\* signal.get("signal_id", default)
SignalIdOf(signal, default) ==
    IF "signal_id" \in DOMAIN signal THEN signal.signal_id ELSE default

\* the payload dictionary forward_signal builds
BuildPayload(tid, signal, ts) ==
    [ transmission_id |-> tid,
      source          |-> SourceTag,
      signal          |-> signal,
      timestamp       |-> ts ]

\* the payload dictionary health_check builds
BuildHealthPayload(tid, ts) ==
    [ transmission_id |-> tid,
      source          |-> SourceTag,
      type            |-> "health_check",
      timestamp       |-> ts ]

\* json.loads of a response body: the documents the endpoint may answer with
IsJson(content) == content \in {"{}", "{\"ack\": true}"}

JsonValue(content) ==
    IF content = "{\"ack\": true}" THEN [ack |-> TRUE] ELSE EmptyMapping

\* response.json() if response.content else {}
\* (ok = FALSE: response.json() raised)
ResponseData(content) ==
    IF content = "" THEN [ok |-> TRUE, value |-> EmptyMapping]
    ELSE IF IsJson(content) THEN [ok |-> TRUE, value |-> JsonValue(content)]
    ELSE [ok |-> FALSE, value |-> EmptyMapping]

\* response.status_code in [200, 201]
IsSuccessCode(code) == code \in {200, 201}

\* the check of the enabled flag left out
DisabledNever(cfg) == FALSE

\* if not self.enabled
Disabled(cfg) == ~cfg.enabled

\* one pass too many
InRangeInclusive(i, n) == i <= n

\* a loop that makes its first pass whatever the bound is
InRangeAtLeastOnce(i, n) == i < n \/ i = 0

\* for attempt in range(self.retry_attempts): the loop has a pass for i
InRange(i, n) == i < n

\* a handler that catches HTTPException alone
CatchesHttpOnly(e) == e.type = "HTTPException"

\* except Exception: every exception the model raises derives from Exception
Catches(e) ==
    e.type \in {"Exception", "HTTPException", "ConnectionError", "Timeout",
                "JSONDecodeError"}

\* a loop that gives up at the first error result
BatchStopsOnError(i, sigs, result) == i < Len(sigs) /\ result.status # "error"

\* for signal in signals: after the i-th result the loop goes on
BatchGoesOn(i, sigs, result) == i < Len(sigs)

UnknownError == [type |-> "Exception", message |-> "Unknown error"]

HttpError(code) ==
    [ type        |-> "HTTPException",
      status_code |-> code,
      detail      |-> <<"InsightFlow returned status", code>> ]

\* str(e)
StrOf(e) ==
    IF e.type = "Exception" THEN <<e.message>>
    ELSE IF e.type = "HTTPException" THEN <<e.status_code, e.detail>>
    ELSE <<e.type>>

\* the first failure kept, later ones dropped
KeepFirstException(old, exc) == IF old.type = "Exception" THEN exc ELSE old

\* last_exception = ...: the failure of this pass replaces the one recorded
RecordException(old, exc) == exc

\* One pass of the retry loop's body on the outcome o of the POST:
\* either the loop returns (tag "return") or the attempt failed and its
\* exception becomes last_exception (tag "failed"; raised tells whether the
\* exception was raised by the POST or the parse, or built from the status).
TryAttempt(o, attempt) ==
    IF o.kind = "exception"
    THEN [tag |-> "failed", raised |-> TRUE, exc |-> [type |-> o.type]]
    ELSE LET data == ResponseData(o.content) IN
         IF ~data.ok
         THEN [tag |-> "failed", raised |-> TRUE, exc |-> [type |-> "JSONDecodeError"]]
         ELSE IF IsSuccessCode(o.status_code)
         THEN [tag   |-> "return",
               value |-> [ status_code |-> o.status_code,
                           response    |-> data.value,
                           attempt     |-> attempt + 1 ]]
         ELSE [tag |-> "failed", raised |-> FALSE, exc |-> HttpError(o.status_code)]

\* the three dictionaries forward_signal returns
SkippedResult(ts) ==
    [ status    |-> "skipped",
      message   |-> "STP bridge is disabled",
      timestamp |-> ts ]

SuccessResult(sid, pl, response, ts) ==
    [ status          |-> "success",
      signal_id       |-> sid,
      transmission_id |-> pl.transmission_id,
      response        |-> response,
      timestamp       |-> ts ]

ErrorResult(sid, pl, e, ts) ==
    [ status    |-> "error",
      signal_id |-> sid,
      error     |-> StrOf(e),
      timestamp |-> ts ]

\* a health_check that pings an enabled bridge only
HealthProbesIfEnabled(cfg) == cfg.enabled

\* health_check sends its ping without a look at self.enabled
HealthProbes(cfg) == TRUE

\* what a health_check that did not ping would have to answer
NotProbedResult(endpoint, ts) ==
    [ status |-> "skipped", endpoint |-> endpoint, timestamp |-> ts ]

\* 201 not taken for healthy
HealthStatusOnly200(code) == IF code = 200 THEN "healthy" ELSE "unhealthy"

\* the dictionary health_check returns on the outcome o of its POST
HealthStatus(code) == IF code \in {200, 201} THEN "healthy" ELSE "unhealthy"

HealthResult(o, endpoint, ts) ==
    IF o.kind = "response"
    THEN [ status        |-> HealthStatus(o.status_code),
           endpoint      |-> endpoint,
           status_code   |-> o.status_code,
           response_time |-> "elapsed",
           timestamp     |-> ts ]
    ELSE [ status    |-> "unhealthy",
           endpoint  |-> endpoint,
           error     |-> <<o.type>>,
           timestamp |-> ts ]

----------------------------------------------------------------------------
(* The pure parts of the normalization routes (src/routes/normalization.py). *)
(* Weights are counted in tenths: 12 stands for 1.2.                        *)

None == NoRecord

\* the requests the routes are called with; the first two share their
\* action_type and differ in everything else but the module
Requests ==
    { [module |-> "game", action_type |-> "play", raw_value |-> 2,
       context |-> [level |-> "one"], metadata |-> None],
      [module |-> "game", action_type |-> "play", raw_value |-> 3,
       context |-> None, metadata |-> [tag |-> "b"]],
      [module |-> "insight", action_type |-> "read", raw_value |-> 2,
       context |-> None, metadata |-> None],
      [module |-> "arcade", action_type |-> "score", raw_value |-> 5,
       context |-> None, metadata |-> None] }

\* what context_weights.json may hold
WeightTexts ==
    { "{\"default_behavior_weights\": {\"game\": 2.0, \"finance\": 1.0}}",
      "{\"default_behavior_weights\": 5}",
      "{}",
      "[]",
      "not json" }

\* the conditions of the weights file
Sources ==
    { [state |-> "missing"], [state |-> "unreadable"] }
        \cup [state : {"ok"}, text : WeightTexts]

GoodSource ==
    [state |-> "ok",
     text  |-> "{\"default_behavior_weights\": {\"game\": 2.0, \"finance\": 1.0}}"]

JsonObject(fields) == [kind |-> "object", fields |-> fields]

\* json.load(f) on the texts above (ok = FALSE: it raised)
JsonLoad(text) ==
    IF text = "{\"default_behavior_weights\": {\"game\": 2.0, \"finance\": 1.0}}"
    THEN [ok |-> TRUE,
          value |-> JsonObject([default_behavior_weights |->
                                   JsonObject([game |-> 20, finance |-> 10])])]
    ELSE IF text = "{\"default_behavior_weights\": 5}"
    THEN [ok |-> TRUE,
          value |-> JsonObject([default_behavior_weights |->
                                   [kind |-> "number", fields |-> EmptyMapping]])]
    ELSE IF text = "{}"
    THEN [ok |-> TRUE, value |-> JsonObject(EmptyMapping)]
    ELSE IF text = "[]"
    THEN [ok |-> TRUE, value |-> [kind |-> "array", fields |-> EmptyMapping]]
    ELSE [ok |-> FALSE, value |-> JsonObject(EmptyMapping)]

\* the weights load_context_weights falls back to
DefaultWeights == [finance |-> 10, game |-> 12, gurukul |-> 13, insight |-> 11]

\* load_context_weights: open and json.load raise into the except clause
LoadContextWeights(src) ==
    IF src.state # "ok"
    THEN JsonObject([default_behavior_weights |-> JsonObject(DefaultWeights)])
    ELSE LET doc == JsonLoad(src.text) IN
         IF doc.ok THEN doc.value
         ELSE JsonObject([default_behavior_weights |-> JsonObject(DefaultWeights)])

\* the weight of a module that the mapping does not list
UnitWeight == 10

\* behavior_weights.get(request.module, 1.0)
ModuleWeight(behavior_weights, module) ==
    IF module \in DOMAIN behavior_weights THEN behavior_weights[module]
    ELSE UnitWeight

\* normalize_single_state (ok = FALSE: it raised; .get on a value that is
\* no dictionary raises AttributeError)
NormalizeSingleState(request, src, id, ts) ==
    LET weights == LoadContextWeights(src) IN
    IF weights.kind # "object"
    THEN [ok |-> FALSE, state |-> None]
    ELSE LET behavior_weights ==
                 IF "default_behavior_weights" \in DOMAIN weights.fields
                 THEN weights.fields.default_behavior_weights
                 ELSE JsonObject(EmptyMapping)
         IN  IF behavior_weights.kind # "object"
             THEN [ok |-> FALSE, state |-> None]
             ELSE LET module_weight ==
                          ModuleWeight(behavior_weights.fields, request.module)
                  IN  [ok |-> TRUE,
                       state |-> [ state_id       |-> id,
                                   module         |-> request.module,
                                   action_type    |-> request.action_type,
                                   weight         |-> module_weight,
                                   feedback_value |-> request.raw_value * module_weight,
                                   timestamp      |-> ts ]]

\* one event_id for every record
EventIdShared(state) == Uuid(0)

\* "event_id": normalized_state.state_id
EventId(state) == state.state_id

\* the event record both routes build from a state and the request they
\* take for its origin
EventRecord(state, original_request, ts) ==
    [ event_id   |-> EventId(state),
      event_type |-> "normalized_state",
      data       |-> [ module           |-> state.module,
                       action_type      |-> state.action_type,
                       raw_value        |-> original_request.raw_value,
                       normalized_value |-> state.feedback_value,
                       weight           |-> state.weight,
                       context          |-> original_request.context,
                       metadata         |-> original_request.metadata ],
      timestamp  |-> state.timestamp,
      source     |-> << "normalization_api_", state.module >>,
      status     |-> "processed",
      created_at |-> ts ]

\* next(req for req in request.states if req.action_type == ...): the first
\* request of the batch with the action_type of the state
OriginalRequest(requests, state) ==
    LET same  == {i \in DOMAIN requests :
                     requests[i].action_type = state.action_type}
        first == CHOOSE i \in same : \A j \in same : i <= j
    IN  requests[first]

\* the states written last to first
WrittenStateReversed(states, k) == states[Len(states) + 1 - k]

\* for normalized_state in normalized_states: the k-th state is written k-th
WrittenState(states, k) == states[k]

\* a failed insert that is swallowed
InsertFailureSwallowed(ok) == FALSE

\* karma_events_col.insert_one raises when the write cannot be done and
\* nothing between it and the route's except clause catches that
InsertRaises(ok) == ~ok

\* the states written so far handed back on a failure
PartialResponse(states, k) ==
    [kind |-> "states", states |-> SubSeq(states, 1, k - 1)]

\* raise HTTPException(status_code=500, ...)
FailureResponse(states, k) == [kind |-> "error", status_code |-> 500]

\* return normalized_state / return normalized_states
SuccessResponse(route, states) ==
    IF route = "single" THEN [kind |-> "state", state |-> states[1]]
    ELSE [kind |-> "states", states |-> states]

----------------------------------------------------------------------------
(* State *)

VARIABLES
    bridge,          \* the configuration of the process-wide STPBridge
    now,             \* the clock datetime.utcnow() reads
    nextUuid,        \* identifiers uuid.uuid4() has handed out so far
    posts,           \* the POSTs each caller issued to the endpoint, in order
    pc,              \* where each caller stands
    mode,            \* the operation a caller runs: forward, batch, health
    signals,         \* the signal(s) the caller passed in
    idx,             \* batch_forward_signals: position of the loop
    results,         \* batch_forward_signals: the results list
    signal_id,       \* forward_signal: its local signal_id
    payload,         \* forward_signal: its local payload
    attempt,         \* _send_with_retry: the loop variable
    last_exception,  \* _send_with_retry: its local last_exception
    replies,         \* what the endpoint answered to the POSTs of the running call
    ret              \* the value the operation returned to the caller

VARIABLES
    source,          \* the condition of context_weights.json
    sink,            \* karma_events_col: the records inserted, in order
    produced,        \* every state normalized so far, with its request
    npc,             \* where the normalization route stands
    route,           \* the route that runs: single, batch
    nreqs,           \* the request(s) it was called with
    normalized_states, \* the states it has computed
    nk,              \* the position of the write loop
    inserts,         \* the outcomes of the insert_one calls of this request
    response         \* what the route answered

norm == << source, sink, produced, npc, route, nreqs, normalized_states,
           nk, inserts, response >>

vars == << bridge, now, nextUuid, posts, pc, mode, signals, idx, results,
           signal_id, payload, attempt, last_exception, replies, ret, norm >>

shared == << bridge, now, nextUuid, posts >>

locals == << signal_id, payload, attempt, last_exception >>

\* no normalization request yet
NormIdle ==
    /\ sink = << >>
    /\ produced = {}
    /\ npc = "idle"
    /\ route = "none"
    /\ nreqs = << >>
    /\ normalized_states = << >>
    /\ nk = 0
    /\ inserts = << >>
    /\ response = None

InitWith(retries) ==
    /\ bridge \in { BridgeConfig(n, on) : n \in retries, on \in BOOLEAN }
    /\ now = 0
    /\ nextUuid = 0
    /\ posts = [c \in Callers |-> << >>]
    /\ pc = [c \in Callers |-> "idle"]
    /\ mode = [c \in Callers |-> "none"]
    /\ signals = [c \in Callers |-> << >>]
    /\ idx = [c \in Callers |-> 0]
    /\ results = [c \in Callers |-> << >>]
    /\ signal_id = [c \in Callers |-> Uuid(0)]
    /\ payload = [c \in Callers |-> NoRecord]
    /\ attempt = [c \in Callers |-> 0]
    /\ last_exception = [c \in Callers |-> UnknownError]
    /\ replies = [c \in Callers |-> << >>]
    /\ ret = [c \in Callers |-> NoRecord]
    /\ NormIdle

\* retry_attempts is taken from the configuration as it comes: zero and
\* negative values too
Init == InitWith(-1..MaxRetry) /\ source = GoodSource

BatchInit == InitWith(0..BatchRetry) /\ source = GoodSource

ConcInit == InitWith(0..ConcRetry) /\ source = GoodSource

----------------------------------------------------------------------------
(* Operations *)

\* time passes
Tick ==
    /\ now < MaxClock
    /\ now' = now + 1
    /\ UNCHANGED << bridge, nextUuid, posts, pc, mode, signals, idx, results,
                    signal_id, payload, attempt, last_exception, replies, ret,
                    norm >>

\* the payload built anew on every pass of the loop
RebuiltPayload(c) ==
    BuildPayload(Uuid(nextUuid + 1 + attempt[c]), signals[c][idx[c]], now)

\* the payload kept in one slot of the bridge: the one built last
SharedPayload(c) ==
    LET begun == {d \in Callers : pc[d] \in {"send", "done"}}
        last  == CHOOSE d \in begun : \A e \in begun :
                     payload[e].transmission_id[2] <= payload[d].transmission_id[2]
    IN  payload[last]

\* the payload a caller's POST carries: the local variable of its own frame
SentPayload(c) == payload[c]

\* requests.post(endpoint, json=pl, timeout=...): the endpoint receives pl
Post(c, pl) ==
    posts' = [posts EXCEPT ![c] = Append(@, [call |-> idx[c], payload |-> pl])]

\* forward_signal hands result back: to the caller, or to the loop of
\* batch_forward_signals, which appends it and goes on with the next signal
Deliver(c, result) ==
    /\ results' = [results EXCEPT ![c] = Append(@, result)]
    /\ IF mode[c] = "forward"
       THEN /\ ret' = [ret EXCEPT ![c] = result]
            /\ pc' = [pc EXCEPT ![c] = "done"]
            /\ idx' = idx
       ELSE /\ idx' = [idx EXCEPT ![c] = @ + 1]
            /\ IF BatchGoesOn(idx[c], signals[c], result)
               THEN /\ pc' = [pc EXCEPT ![c] = "call"]
                    /\ ret' = ret
               ELSE /\ pc' = [pc EXCEPT ![c] = "done"]
                    /\ ret' = [ret EXCEPT ![c] = Append(results[c], result)]

\* a caller invokes forward_signal(s)
CallForward(c, s) ==
    /\ pc[c] = "idle"
    /\ mode' = [mode EXCEPT ![c] = "forward"]
    /\ signals' = [signals EXCEPT ![c] = << s >>]
    /\ idx' = [idx EXCEPT ![c] = 1]
    /\ pc' = [pc EXCEPT ![c] = "call"]
    /\ UNCHANGED << shared, locals, results, replies, ret, norm >>

\* a caller invokes batch_forward_signals(sigs): results = [], loop entered
CallBatch(c, sigs) ==
    /\ pc[c] = "idle"
    /\ mode' = [mode EXCEPT ![c] = "batch"]
    /\ signals' = [signals EXCEPT ![c] = sigs]
    /\ idx' = [idx EXCEPT ![c] = 1]
    /\ IF sigs = << >>
       THEN /\ pc' = [pc EXCEPT ![c] = "done"]
            /\ ret' = [ret EXCEPT ![c] = << >>]
       ELSE /\ pc' = [pc EXCEPT ![c] = "call"]
            /\ ret' = ret
    /\ UNCHANGED << shared, locals, results, replies, norm >>

\* forward_signal up to the first pass of the retry loop
ForwardBegin(c) ==
    /\ pc[c] = "call"
    /\ replies' = [replies EXCEPT ![c] = << >>]
    /\ IF Disabled(bridge)
       THEN /\ Deliver(c, SkippedResult(now))
            /\ UNCHANGED << shared, locals, mode, signals >>
       ELSE /\ signal_id' = [signal_id EXCEPT ![c] =
                                SignalIdOf(signals[c][idx[c]], Uuid(nextUuid + 1))]
            /\ payload' = [payload EXCEPT ![c] =
                                BuildPayload(Uuid(nextUuid + 2), signals[c][idx[c]], now)]
            /\ nextUuid' = nextUuid + 2
            /\ attempt' = [attempt EXCEPT ![c] = 0]
            /\ last_exception' = [last_exception EXCEPT ![c] = UnknownError]
            /\ pc' = [pc EXCEPT ![c] = "send"]
            /\ UNCHANGED << bridge, now, posts, mode, signals, idx, results, ret >>
    /\ UNCHANGED norm

\* one pass of the retry loop: the POST, answered with o
Attempt(c, o) ==
    /\ pc[c] = "send"
    /\ InRange(attempt[c], bridge.retry_attempts)
    /\ Post(c, SentPayload(c))
    /\ replies' = [replies EXCEPT ![c] = Append(@, o)]
    /\ LET step == TryAttempt(o, attempt[c]) IN
       IF step.tag = "return"
       THEN /\ Deliver(c, SuccessResult(signal_id[c], payload[c], step.value, now))
            /\ UNCHANGED << attempt, last_exception >>
       ELSE IF step.raised /\ ~Catches(step.exc)
       THEN /\ pc' = [pc EXCEPT ![c] = "raised"]
            /\ UNCHANGED << attempt, last_exception, idx, results, ret >>
       ELSE /\ last_exception' =
                   [last_exception EXCEPT ![c] = RecordException(@, step.exc)]
            /\ attempt' = [attempt EXCEPT ![c] = @ + 1]
            /\ UNCHANGED << pc, idx, results, ret >>
    /\ UNCHANGED << bridge, now, nextUuid, mode, signals, signal_id, payload,
                    norm >>

\* the loop is over: raise last_exception, which forward_signal catches and
\* turns into its error result (an exception it did not catch would reach
\* the caller)
Exhausted(c) ==
    /\ pc[c] = "send"
    /\ ~InRange(attempt[c], bridge.retry_attempts)
    /\ IF Catches(last_exception[c])
       THEN Deliver(c, ErrorResult(signal_id[c], payload[c], last_exception[c], now))
       ELSE /\ pc' = [pc EXCEPT ![c] = "raised"]
            /\ UNCHANGED << idx, results, ret >>
    /\ UNCHANGED << shared, locals, mode, signals, replies, norm >>

\* health_check: one POST, answered with o
HealthCheck(c, o) ==
    /\ pc[c] = "idle"
    /\ mode' = [mode EXCEPT ![c] = "health"]
    /\ IF HealthProbes(bridge)
       THEN /\ Post(c, BuildHealthPayload(Uuid(nextUuid + 1), now))
            /\ nextUuid' = nextUuid + 1
            /\ replies' = [replies EXCEPT ![c] = << o >>]
            /\ IF o.kind = "exception" /\ ~Catches([type |-> o.type])
               THEN /\ pc' = [pc EXCEPT ![c] = "raised"]
                    /\ ret' = ret
               ELSE /\ pc' = [pc EXCEPT ![c] = "done"]
                    /\ ret' = [ret EXCEPT ![c] =
                                  HealthResult(o, bridge.insightflow_endpoint, now)]
       ELSE /\ pc' = [pc EXCEPT ![c] = "done"]
            /\ ret' = [ret EXCEPT ![c] =
                          NotProbedResult(bridge.insightflow_endpoint, now)]
            /\ UNCHANGED << posts, nextUuid, replies >>
    /\ UNCHANGED << bridge, now, locals, signals, idx, results, norm >>

Next ==
    \/ Tick
    \/ \E c \in SeqCallers, s \in Signals : CallForward(c, s)
    \/ \E c \in SeqCallers : ForwardBegin(c)
    \/ \E c \in SeqCallers, o \in Outcomes : Attempt(c, o)
    \/ \E c \in SeqCallers : Exhausted(c)
    \/ \E c \in SeqCallers, o \in Outcomes : HealthCheck(c, o)

Spec == Init /\ [][Next]_vars

\* one caller running batch_forward_signals
BatchInputs == UNION { [1..n -> FewSignals] : n \in 0..MaxBatch }

BatchNext ==
    \/ Tick
    \/ \E c \in SeqCallers, sigs \in BatchInputs : CallBatch(c, sigs)
    \/ \E c \in SeqCallers : ForwardBegin(c)
    \/ \E c \in SeqCallers, o \in FewOutcomes : Attempt(c, o)
    \/ \E c \in SeqCallers : Exhausted(c)

BatchSpec == BatchInit /\ [][BatchNext]_vars

\* several callers on the process-wide bridge, their steps interleaved
\* (the clock stands still: no step of forward_signal depends on it)
ConcNext ==
    \/ \E c \in Callers, s \in FewSignals : CallForward(c, s)
    \/ \E c \in Callers : ForwardBegin(c)
    \/ \E c \in Callers, o \in FewOutcomes : Attempt(c, o)
    \/ \E c \in Callers : Exhausted(c)

ConcSpec == ConcInit /\ [][ConcNext]_vars

----------------------------------------------------------------------------
(* The normalization routes.  Requests are served one after the other; the  *)
(* weights file keeps its condition, the sink answers each insert_one with  *)
(* ok (written) or not ok (not written, insert_one raises).                 *)

bridgeVars == << bridge, now, posts, pc, mode, signals, idx, results,
                 signal_id, payload, attempt, last_exception, replies, ret >>

NormInit ==
    /\ InitWith({MaxRetry})
    /\ bridge.enabled
    /\ source \in Sources

\* POST /normalize_state up to the insert
NormalizeState(request) ==
    /\ npc \in {"idle", "done"}
    /\ nextUuid < MaxIds
    /\ route' = "single"
    /\ nreqs' = << request >>
    /\ inserts' = << >>
    /\ nextUuid' = nextUuid + 1
    /\ LET r == NormalizeSingleState(request, source, Uuid(nextUuid + 1), now) IN
       IF r.ok
       THEN /\ normalized_states' = << r.state >>
            /\ produced' = produced \cup {[state |-> r.state, request |-> request]}
            /\ nk' = 1
            /\ npc' = "insert"
            /\ response' = None
       ELSE /\ normalized_states' = << >>
            /\ produced' = produced
            /\ nk' = 0
            /\ npc' = "done"
            /\ response' = FailureResponse(<< >>, 0)
    /\ UNCHANGED << bridgeVars, source, sink >>

\* POST /normalize_state/batch up to the first insert: the loop over
\* request.states, which ends at the first normalize_single_state that raises
NormalizeStateBatch(requests) ==
    /\ npc \in {"idle", "done"}
    /\ nextUuid + Len(requests) <= MaxIds
    /\ route' = "batch"
    /\ nreqs' = requests
    /\ inserts' = << >>
    /\ LET n      == Len(requests)
           r      == [i \in 1..n |->
                         NormalizeSingleState(requests[i], source,
                                              Uuid(nextUuid + i), now)]
           raised == {i \in 1..n : ~r[i].ok}
           done   == IF raised = {} THEN n
                     ELSE (CHOOSE i \in raised : \A j \in raised : i <= j) - 1
           states == [i \in 1..done |-> r[i].state]
       IN  /\ normalized_states' = states
           /\ produced' = produced \cup
                  {[state |-> states[i], request |-> requests[i]] : i \in 1..done}
           /\ nextUuid' = nextUuid + (IF raised = {} THEN n ELSE done + 1)
           /\ IF raised # {}
              THEN /\ npc' = "done"
                   /\ nk' = 0
                   /\ response' = FailureResponse(states, 0)
              ELSE IF n = 0
              THEN /\ npc' = "done"
                   /\ nk' = 0
                   /\ response' = SuccessResponse("batch", states)
              ELSE /\ npc' = "insert"
                   /\ nk' = 1
                   /\ response' = None
    /\ UNCHANGED << bridgeVars, source, sink >>

\* one karma_events_col.insert_one(event_record) of either route, and what
\* follows it: the next pass of the write loop, the return, or the except
\* clause of the route
InsertOne(ok) ==
    /\ npc = "insert"
    /\ inserts' = Append(inserts, ok)
    /\ LET state  == WrittenState(normalized_states, nk)
           origin == IF route = "single" THEN nreqs[1]
                     ELSE OriginalRequest(nreqs, state)
       IN  IF InsertRaises(ok)
           THEN /\ sink' = sink
                /\ npc' = "done"
                /\ nk' = nk
                /\ response' = FailureResponse(normalized_states, nk)
           ELSE /\ sink' = IF ok THEN Append(sink, EventRecord(state, origin, now))
                           ELSE sink
                /\ IF nk < Len(normalized_states)
                   THEN /\ nk' = nk + 1
                        /\ npc' = "insert"
                        /\ response' = None
                   ELSE /\ nk' = nk
                        /\ npc' = "done"
                        /\ response' = SuccessResponse(route, normalized_states)
    /\ UNCHANGED << bridgeVars, nextUuid, source, produced, route, nreqs,
                    normalized_states >>

StateLists == UNION { [1..n -> Requests] : n \in 0..MaxStates }

NormNext ==
    \/ \E request \in Requests : NormalizeState(request)
    \/ \E requests \in StateLists : NormalizeStateBatch(requests)
    \/ \E ok \in BOOLEAN : InsertOne(ok)

NormSpec == NormInit /\ [][NormNext]_vars

----------------------------------------------------------------------------
(* Claims *)

\* what the claims call a failed and a successful attempt
FailedReply(o) == o.kind = "exception" \/ o.status_code \notin {200, 201}

OkReply(o) == o.kind = "response" /\ o.status_code \in {200, 201}

ForwardDone(c) == mode[c] = "forward" /\ pc[c] = "done"

AllFailed(c) == \A i \in DOMAIN replies[c] : FailedReply(replies[c][i])

\* C1: on an enabled bridge with retry_attempts = N >= 1, a forward_signal
\* call never issues more than N POSTs, and a call all of whose attempts
\* failed (a status other than 200/201, a network error, a timeout) has
\* issued exactly N POSTs and returned status "error".
C1_ExactlyNPostsThenError ==
    \A c \in Callers :
        (mode[c] = "forward" /\ bridge.enabled /\ bridge.retry_attempts >= 1) =>
            /\ Len(posts[c]) <= bridge.retry_attempts
            /\ (pc[c] = "done" /\ AllFailed(c)) =>
                   /\ Len(posts[c]) = bridge.retry_attempts
                   /\ ret[c].status = "error"

C1_Witness ==
    \E c \in Callers :
        /\ ForwardDone(c) /\ bridge.enabled /\ bridge.retry_attempts = 3
        /\ Len(posts[c]) = 3 /\ ret[c].status = "error"
        /\ replies[c][1].kind = "exception"
        /\ replies[c][2].kind = "response" /\ replies[c][2].status_code = 500
        /\ replies[c][3].kind = "response" /\ replies[c][3].status_code = 500

\* the first attempt of the running call that got 200 or 201 (0: none)
FirstOk(c) ==
    IF \E i \in DOMAIN replies[c] : OkReply(replies[c][i])
    THEN CHOOSE i \in DOMAIN replies[c] :
             /\ OkReply(replies[c][i])
             /\ \A j \in 1..(i - 1) : FailedReply(replies[c][j])
    ELSE 0

\* C2: on an enabled bridge, a forward_signal call whose first k-1 attempts
\* failed and whose k-th attempt got 200 or 201 has issued exactly k POSTs
\* and returned status "success" with attempt = k and the status code and
\* the body of the k-th attempt.
C2_SuccessAtKthAttempt ==
    \A c \in Callers :
        (ForwardDone(c) /\ bridge.enabled /\ FirstOk(c) > 0) =>
            LET k == FirstOk(c)
                o == replies[c][k]
            IN  /\ Len(posts[c]) = k
                /\ ret[c].status = "success"
                /\ ret[c].response.attempt = k
                /\ ret[c].response.status_code = o.status_code
                /\ ret[c].response.response = ResponseData(o.content).value

\* C3: an attempt is a success exactly if its status code is 200 or 201:
\* the call returns "success" on the attempt that got 200 or 201, whatever
\* the body (an empty body giving an empty mapping), and no attempt that
\* got another code or a network failure ends the call with "success".
C3_SuccessIffCode ==
    \A c \in Callers :
        (mode[c] = "forward" /\ pc[c] \in {"send", "done"} /\ replies[c] # << >>) =>
            LET k == Len(replies[c])
                o == replies[c][k]
            IN  /\ OkReply(o) =>
                       /\ pc[c] = "done"
                       /\ ret[c].status = "success"
                       /\ ret[c].response.attempt = k
                       /\ o.content = "" => ret[c].response.response = EmptyMapping
                /\ FailedReply(o) => ~(pc[c] = "done" /\ ret[c].status = "success")

\* C4: on a bridge constructed with enabled = false, a forward_signal call
\* issues no POST and returns status "skipped".
C4_DisabledSkips ==
    \A c \in Callers :
        (mode[c] = "forward" /\ ~bridge.enabled) =>
            /\ posts[c] = << >>
            /\ pc[c] \in {"call", "done"}
            /\ pc[c] = "done" => ret[c].status = "skipped"

C4_Witness ==
    \E c \in Callers :
        /\ ForwardDone(c) /\ ~bridge.enabled
        /\ ret[c].status = "skipped" /\ posts[c] = << >>

\* C5: forward_signal never raises to its caller and never gets stuck: a
\* running call can always take its next step, none ends in an exception,
\* and the result of a finished call has status success, error or skipped.
C5_NeverRaises ==
    \A c \in Callers :
        mode[c] = "forward" =>
            /\ pc[c] # "raised"
            /\ pc[c] = "call" => ENABLED ForwardBegin(c)
            /\ pc[c] = "send" =>
                   /\ attempt[c] <= bridge.retry_attempts \/ attempt[c] = 0
                   /\ ENABLED ((\E o \in Outcomes : Attempt(c, o)) \/ Exhausted(c))
            /\ pc[c] = "done" => ret[c].status \in {"success", "error", "skipped"}

C5_Witness ==
    \E c \in Callers :
        /\ ForwardDone(c) /\ ret[c].status = "error"
        /\ Len(replies[c]) = 3
        /\ replies[c][1].kind = "exception"
        /\ replies[c][2].kind = "response" /\ replies[c][2].content = "<html>"
        /\ replies[c][3].kind = "response" /\ replies[c][3].status_code = 500

HasOwnId(signal) == "signal_id" \in DOMAIN signal

\* C6: within one forward_signal call every POST carries the same payload
\* (transmission_id, source tag, timestamp, embedded signal), which holds
\* the caller's signal, and the transmission_id of a "success" result is
\* the one that was sent.
C6_PayloadBuiltOnce ==
    \A c \in Callers :
        mode[c] = "forward" =>
            /\ \A i \in DOMAIN posts[c] :
                   /\ posts[c][i].payload = posts[c][1].payload
                   /\ posts[c][i].payload.signal = signals[c][1]
                   /\ posts[c][i].payload.source = SourceTag
            /\ (pc[c] = "done" /\ ret[c].status = "success") =>
                   ret[c].transmission_id =
                       posts[c][Len(posts[c])].payload.transmission_id

C6_Witness ==
    \E c \in Callers :
        /\ ForwardDone(c) /\ ret[c].status = "success"
        /\ Len(posts[c]) = 3
        /\ posts[c][1].payload.timestamp = 0 /\ ret[c].timestamp = 1

\* C7: the result of a forward_signal call that issued at least one POST
\* (status "success" or "error") holds the transmission_id of the payload
\* the call sent.
C7_ResultHasTransmissionId ==
    \A c \in Callers :
        (ForwardDone(c) /\ ret[c].status \in {"success", "error"}
                        /\ Len(posts[c]) >= 1) =>
            /\ "transmission_id" \in DOMAIN ret[c]
            /\ ret[c].transmission_id = posts[c][1].payload.transmission_id

\* C8: batch_forward_signals runs forward_signal once per signal, in input
\* order and one after the other: the POSTs of a signal carry that signal
\* and one payload, none is issued before the results of all earlier
\* signals exist, and the list returned has one result per signal, result
\* i being that of signal i, whatever the status of the earlier results.
C8_BatchInOrder ==
    \A c \in Callers :
        mode[c] = "batch" =>
            LET n == Len(signals[c]) IN
            /\ pc[c] \in {"call", "send"} => Len(results[c]) = idx[c] - 1
            /\ pc[c] = "done" => ret[c] = results[c] /\ Len(ret[c]) = n
            /\ \A i \in DOMAIN results[c] :
                   LET r == results[c][i] IN
                   /\ i <= n
                   /\ r.status = "skipped" <=> ~bridge.enabled
                   /\ bridge.enabled =>
                          /\ IF HasOwnId(signals[c][i])
                             THEN r.signal_id = signals[c][i].signal_id
                             ELSE /\ r.signal_id[1] = "uuid"
                                  /\ \A j \in DOMAIN results[c] :
                                         j # i => results[c][j].signal_id # r.signal_id
                          /\ bridge.retry_attempts >= 1 =>
                                 \E j \in DOMAIN posts[c] : posts[c][j].call = i
                          /\ r.status = "success" =>
                                 \E j \in DOMAIN posts[c] :
                                     /\ posts[c][j].call = i
                                     /\ posts[c][j].payload.transmission_id =
                                            r.transmission_id
            /\ \A j \in DOMAIN posts[c] :
                   /\ posts[c][j].call \in 1..n
                   /\ posts[c][j].payload.signal = signals[c][posts[c][j].call]
                   /\ Len(results[c]) >= posts[c][j].call - 1
                   /\ j > 1 => posts[c][j - 1].call <= posts[c][j].call
                   /\ \A k \in DOMAIN posts[c] :
                          (posts[c][k].call = posts[c][j].call) <=>
                              (posts[c][k].payload = posts[c][j].payload)

C8_Witness ==
    \E c \in Callers :
        /\ mode[c] = "batch" /\ pc[c] = "done" /\ Len(ret[c]) = 2
        /\ signals[c][1] = signals[c][2]
        /\ ret[c][1].status = "error" /\ ret[c][2].status = "success"
        /\ Len(posts[c]) = 3

\* C9: health_check issues exactly one POST, of its ping payload, and never
\* raises: it returns "healthy" exactly if that POST got 200 or 201, with
\* any other code "unhealthy" and the status code, and on a network
\* failure "unhealthy" with an error detail and no status code.
C9_HealthCheck ==
    \A c \in Callers :
        mode[c] = "health" =>
            /\ pc[c] = "done"
            /\ Len(posts[c]) = 1
            /\ posts[c][1].payload.type = "health_check"
            /\ LET o == replies[c][1]
                   r == ret[c]
               IN  /\ r.status \in {"healthy", "unhealthy"}
                   /\ r.status = "healthy" <=> OkReply(o)
                   /\ o.kind = "response" =>
                          /\ "status_code" \in DOMAIN r
                          /\ r.status_code = o.status_code
                   /\ o.kind = "exception" =>
                          /\ "error" \in DOMAIN r
                          /\ "status_code" \notin DOMAIN r

C9_Witness ==
    \E c \in Callers :
        /\ mode[c] = "health" /\ pc[c] = "done"
        /\ replies[c][1].kind = "response"
        /\ replies[c][1].status_code = 201 /\ replies[c][1].content = "<html>"
        /\ ret[c].status = "healthy"

\* the callers whose forward_signal call has built its payload
Begun == {c \in Callers : mode[c] = "forward" /\ pc[c] \in {"send", "done"}
                                              /\ bridge.enabled}

C10_OwnIds ==
    \A c \in Begun :
        /\ payload[c].signal = signals[c][1]
        /\ \A i \in DOMAIN posts[c] : posts[c][i].payload = payload[c]
        /\ IF HasOwnId(signals[c][1])
           THEN signal_id[c] = signals[c][1].signal_id
           ELSE signal_id[c][1] = "uuid"
        /\ \A d \in Begun \ {c} :
               /\ payload[d].transmission_id # payload[c].transmission_id
               /\ ~HasOwnId(signals[c][1]) => signal_id[d] # signal_id[c]
        /\ pc[c] = "done" =>
               /\ ret[c].signal_id = signal_id[c]
               /\ ret[c].status = "success" =>
                      ret[c].transmission_id = payload[c].transmission_id

\* C10: with several callers in forward_signal at once, under every
\* interleaving each call sends only its own payload, no two calls share a
\* transmission_id, each result carries the signal_id of its own signal and
\* (on success) the transmission_id of its own payload, and no step
\* changes the configuration of the bridge.
C10_ConcurrentCallsIsolated == []C10_OwnIds /\ [][bridge' = bridge]_vars

C10_Witness ==
    /\ ForwardDone(1) /\ ret[1].status = "success" /\ Len(posts[1]) = 2
    /\ pc[2] = "send" /\ Len(posts[2]) = 1
    /\ signals[1] = signals[2]
    /\ payload[1].transmission_id[2] > payload[2].transmission_id[2]

\* the failure the code records for an attempt answered with o
FailureOf(o) == TryAttempt(o, 0).exc

\* C17: when all retry_attempts >= 1 attempts of a forward_signal call
\* failed, the error detail of the "error" result is that of the last
\* attempt, whatever the kinds of the failures.
C17_LastFailureReported ==
    \A c \in Callers :
        (ForwardDone(c) /\ ret[c].status = "error"
                        /\ bridge.retry_attempts >= 1) =>
            /\ Len(replies[c]) = bridge.retry_attempts
            /\ ret[c].error = StrOf(FailureOf(replies[c][Len(replies[c])]))

C17_Witness ==
    \E c \in Callers :
        /\ ForwardDone(c) /\ ret[c].status = "error" /\ Len(replies[c]) = 3
        /\ replies[c][1].kind = "exception" /\ replies[c][1].type = "Timeout"
        /\ replies[c][2].kind = "response" /\ replies[c][2].status_code = 500
        /\ replies[c][3].kind = "exception"
        /\ replies[c][3].type = "ConnectionError"
        /\ ret[c].error = << "ConnectionError" >>

\* C19: health_check does not look at the enabled flag: on a bridge with
\* enabled = false, where forward_signal issues no POST, health_check still
\* issues its one POST and reports healthy or unhealthy from the outcome.
C19_HealthCheckIgnoresEnabled ==
    \A c \in Callers :
        ~bridge.enabled =>
            /\ mode[c] = "forward" => posts[c] = << >>
            /\ mode[c] = "health" =>
                   /\ Len(posts[c]) = 1
                   /\ posts[c][1].payload.type = "health_check"
                   /\ ret[c].status =
                          IF OkReply(replies[c][1]) THEN "healthy" ELSE "unhealthy"

C19_Witness ==
    \E c \in Callers :
        /\ ~bridge.enabled /\ mode[c] = "health" /\ pc[c] = "done"
        /\ Len(posts[c]) = 1 /\ ret[c].status = "healthy"

\* C20: retry_attempts is not validated: on an enabled bridge with
\* retry_attempts <= 0 a forward_signal call issues no POST and returns
\* status "error" with the detail "Unknown error".
C20_NoAttemptsUnknownError ==
    \A c \in Callers :
        (mode[c] = "forward" /\ bridge.enabled /\ bridge.retry_attempts <= 0) =>
            /\ posts[c] = << >>
            /\ pc[c] = "done" =>
                   /\ ret[c].status = "error"
                   /\ ret[c].error = << "Unknown error" >>

C20_Witness ==
    \E c \in Callers :
        /\ ForwardDone(c) /\ bridge.enabled /\ bridge.retry_attempts = -1
        /\ posts[c] = << >> /\ ret[c].status = "error"
        /\ ret[c].error = << "Unknown error" >>

----------------------------------------------------------------------------
(* Claims about the normalization routes *)

\* the mapping the weights file stands for: its default_behavior_weights
\* when it holds one, the documented defaults when it cannot be read or
\* parsed, no entry at all when the content has another shape
SourceMapping(src) ==
    IF src.state # "ok" \/ ~JsonLoad(src.text).ok THEN DefaultWeights
    ELSE LET value == JsonLoad(src.text).value IN
         IF /\ value.kind = "object"
            /\ "default_behavior_weights" \in DOMAIN value.fields
            /\ value.fields.default_behavior_weights.kind = "object"
         THEN value.fields.default_behavior_weights.fields
         ELSE EmptyMapping

\* the weights file cannot be read, or holds no JSON, or JSON of another
\* shape than a mapping with a mapping under default_behavior_weights
SourceFails(src) ==
    \/ src.state # "ok"
    \/ ~JsonLoad(src.text).ok
    \/ LET value == JsonLoad(src.text).value IN
       ~ /\ value.kind = "object"
         /\ "default_behavior_weights" \in DOMAIN value.fields
         /\ value.fields.default_behavior_weights.kind = "object"

\* the weights file parses to something normalize_single_state cannot call
\* .get on: no mapping, or a mapping whose default_behavior_weights is none
SourceMisshapen(src) ==
    /\ src.state = "ok"
    /\ JsonLoad(src.text).ok
    /\ LET value == JsonLoad(src.text).value IN
       \/ value.kind # "object"
       \/ /\ "default_behavior_weights" \in DOMAIN value.fields
          /\ value.fields.default_behavior_weights.kind # "object"

Served == route # "none"

Answered == npc = "done" /\ "kind" \in DOMAIN response

\* the i-th state is the i-th request weighted by the mapping
StateOf(state, request, mapping) ==
    /\ state.module = request.module
    /\ state.action_type = request.action_type
    /\ state.weight = ModuleWeight(mapping, request.module)
    /\ state.feedback_value = request.raw_value * state.weight

\* the number of inserts of the request being served that wrote a record
Written == Cardinality({i \in DOMAIN inserts : inserts[i]})

\* the records the request being served has written, oldest first
OwnRecords == SubSeq(sink, Len(sink) - Written + 1, Len(sink))

HasRecord(id) == \E i \in DOMAIN sink : sink[i].event_id = id

\* C11: for every request served by either route, normalize returns a state
\* with the module and action_type of the request, whose weight is the entry
\* of the weights file for the module, 1.0 for a module the mapping does not
\* list, the documented default when the file is unavailable, and whose
\* feedback_value is raw_value times that weight.
C11_NormalizeWeighs ==
    Served =>
        /\ Len(normalized_states) = Len(nreqs)
        /\ \A i \in DOMAIN nreqs :
               StateOf(normalized_states[i], nreqs[i], SourceMapping(source))

\* C11 on the weights files that are unavailable or hold a mapping
C11_OnMappings ==
    Served /\ ~SourceMisshapen(source) =>
        /\ Len(normalized_states) = Len(nreqs)
        /\ \A i \in DOMAIN nreqs :
               StateOf(normalized_states[i], nreqs[i], SourceMapping(source))

\* C12: whenever the weights file is missing, unreadable, not JSON or JSON
\* of another shape, normalize does not fail and the weights it applies are
\* the defaults (finance 1.0, game 1.2, gurukul 1.3, insight 1.1).
C12_SourceFailureAbsorbed ==
    Served /\ SourceFails(source) =>
        /\ Len(normalized_states) = Len(nreqs)
        /\ \A i \in DOMAIN nreqs :
               StateOf(normalized_states[i], nreqs[i], DefaultWeights)

\* C12 on the weights files that cannot be opened or parsed
C12_OnUnavailable ==
    Served /\ (source.state # "ok" \/ ~JsonLoad(source.text).ok) =>
        /\ Len(normalized_states) = Len(nreqs)
        /\ \A i \in DOMAIN nreqs :
               StateOf(normalized_states[i], nreqs[i], DefaultWeights)

\* C13: every record the batch route has written carries the raw_value,
\* context and metadata of the request at the position of its state, and its
\* normalized_value is its raw_value times its weight.
C13_RecordPairsByPosition ==
    route = "batch" =>
        \A j \in 1..Written :
            /\ OwnRecords[j].event_id = normalized_states[j].state_id
            /\ OwnRecords[j].data.raw_value = nreqs[j].raw_value
            /\ OwnRecords[j].data.context = nreqs[j].context
            /\ OwnRecords[j].data.metadata = nreqs[j].metadata
            /\ OwnRecords[j].data.normalized_value =
                   OwnRecords[j].data.raw_value * OwnRecords[j].data.weight

\* C13 on batches whose requests have pairwise different action_types
C13_OnDistinctActionTypes ==
    /\ route = "batch"
    /\ \A i, j \in DOMAIN nreqs :
           nreqs[i].action_type = nreqs[j].action_type => i = j
    => \A j \in 1..Written :
            /\ OwnRecords[j].data.raw_value = nreqs[j].raw_value
            /\ OwnRecords[j].data.context = nreqs[j].context
            /\ OwnRecords[j].data.metadata = nreqs[j].metadata
            /\ OwnRecords[j].data.normalized_value =
                   OwnRecords[j].data.raw_value * OwnRecords[j].data.weight

\* every insert of the request being served was made and wrote its record
AllWritten ==
    /\ Len(inserts) = Len(nreqs)
    /\ \A i \in DOMAIN inserts : inserts[i]

\* C14: a batch of n requests whose n writes all succeeded returns n states
\* in the order of the requests, the i-th with the module and action_type of
\* the i-th request and feedback_value = raw_value times the weight of its
\* module, and has written n records, the i-th for the i-th state.
C14_BatchInOrder ==
    route = "batch" /\ npc = "done" /\ AllWritten =>
        /\ response.kind = "states"
        /\ Len(response.states) = Len(nreqs)
        /\ \A i \in DOMAIN nreqs :
               StateOf(response.states[i], nreqs[i], SourceMapping(source))
        /\ Written = Len(nreqs)
        /\ Len(sink) >= Written
        /\ \A i \in DOMAIN nreqs :
               /\ OwnRecords[i].event_id = response.states[i].state_id
               /\ OwnRecords[i].data.module = nreqs[i].module
               /\ OwnRecords[i].data.normalized_value =
                      response.states[i].feedback_value

\* a batch of two requests that share their action_type and differ in their
\* raw_value was written and answered
C14_Witness ==
    /\ route = "batch" /\ npc = "done" /\ AllWritten
    /\ Len(nreqs) = 2
    /\ nreqs[1].action_type = nreqs[2].action_type
    /\ nreqs[1].raw_value # nreqs[2].raw_value
    /\ response.kind = "states"
    /\ response.states[1].state_id # response.states[2].state_id

\* the record wraps a state that normalize has computed
Wraps(record) ==
    \E p \in produced :
        /\ record.event_id = p.state.state_id
        /\ record.data.module = p.state.module
        /\ record.data.action_type = p.state.action_type
        /\ record.data.weight = p.state.weight
        /\ record.data.normalized_value = p.state.feedback_value
        /\ record.timestamp = p.state.timestamp

SinkWrapsOnce ==
    /\ \A i \in DOMAIN sink : Wraps(sink[i])
    /\ \A i, j \in DOMAIN sink : sink[i].event_id = sink[j].event_id => i = j

SinkAppendOnly ==
    /\ Len(sink') >= Len(sink)
    /\ SubSeq(sink', 1, Len(sink)) = sink

\* C15: at all times every record of the sink has the state_id of the state
\* it wraps for event_id, no two records have the same event_id, and a step
\* only ever appends to the sink: no record is rewritten or removed.
C15_EventIdIsStateId == []SinkWrapsOnce /\ [][SinkAppendOnly]_vars

\* records of both routes are in the sink
C15_Witness ==
    /\ Len(sink) >= 3
    /\ route = "single" /\ npc = "done" /\ inserts = << TRUE >>
    /\ \E i, j \in DOMAIN sink :
           i < j /\ sink[i].data.action_type = sink[j].data.action_type

\* C16: the single route makes at most one insert; it answers with the
\* state only when that insert wrote the record of the state; when the insert
\* fails the request is over with a service error (500), without a record.
C16_SingleInsertOnce ==
    route = "single" =>
        /\ Len(inserts) <= 1
        /\ Answered /\ response.kind = "state" =>
               /\ inserts = << TRUE >>
               /\ response.state = normalized_states[1]
               /\ HasRecord(response.state.state_id)
        /\ inserts = << FALSE >> =>
               /\ npc = "done"
               /\ response = [kind |-> "error", status_code |-> 500]
               /\ ~HasRecord(normalized_states[1].state_id)

\* the single route was answered with an error after its insert failed
C16_Witness ==
    /\ route = "single" /\ npc = "done"
    /\ inserts = << FALSE >>
    /\ Len(normalized_states) = 1
    /\ response.kind = "error"

\* C18: the batch route has computed all n states when it makes its first
\* insert; the records it has written are those of items 1, 2, ... in that
\* order; when the insert of item k fails the writes of items 1..k-1 stay,
\* items k..n have no record, no further insert is made and the answer is a
\* service error (500) that carries no state.
C18_BatchStopsAtFailedWrite ==
    route = "batch" =>
        /\ npc = "insert" \/ inserts # << >> =>
               Len(normalized_states) = Len(nreqs)
        /\ Len(sink) >= Written
        /\ \A j \in 1..Written :
               OwnRecords[j].event_id = normalized_states[j].state_id
        /\ \A k \in DOMAIN inserts : ~inserts[k] =>
               /\ k = Len(inserts)
               /\ npc = "done"
               /\ Written = k - 1
               /\ \A i \in k..Len(nreqs) :
                      ~HasRecord(normalized_states[i].state_id)
               /\ response = [kind |-> "error", status_code |-> 500]

\* the second insert of a batch of two failed after the first wrote
C18_Witness ==
    /\ route = "batch" /\ npc = "done"
    /\ Len(nreqs) = 2
    /\ inserts = << TRUE, FALSE >>
    /\ HasRecord(normalized_states[1].state_id)
    /\ response.kind = "error"

====
